---------------------------- MODULE Spec2Model ----------------------------
(***************************************************************************)
(* A state-machine model of src/custom_algorithms/cleansacmc/cleansacmc.py *)
(* (class CLEANSACMC: learn, collect_rollout, train, save, load).          *)
(*                                                                         *)
(* Numbers.  Tensors are abstracted to exact integers plus one non-finite  *)
(* value NaN that every arithmetic operator propagates.  Every network has *)
(* one scalar parameter.  An Adam step is abstracted to one unit step      *)
(* against the sign of the gradient (Adam's first step is lr * sign(g)).   *)
(* Quantities that become fractions are kept in fixed point:               *)
(*   critic_target[i]   is stored multiplied by TargetScale,               *)
(*   an entropy coefficient is stored multiplied by EntScale,              *)
(*   next_q_value       is stored multiplied by QScale.                    *)
(***************************************************************************)
EXTENDS Integers, Sequences, FiniteSets, TLC

(***************************************************************************)
(* Bounds of the model.                                                    *)
(***************************************************************************)
MaxTimesteps == 2
MaxLearningStarts == 1
MaxLearns == 1
MaxLoads == 1
MaxObs == 1
MaxReward == 0
MaxNoise == 1
MaxInit == 0
MaxBuffer == 2

(***************************************************************************)
(* Hyperparameters and environment constants.                              *)
(***************************************************************************)
NumEnvs == 1
n_critics == 2
batch_size == 1
TauNum == 1
TauDen == 4
GammaNum == 1
GammaDen == 2
reward_eta == 1
ActionLow == -1
ActionHigh == 1
ExpBase == 2
ActionDim == 1
ResetValue == 0
ActorInit == 1
NaN == -2000000000

RECURSIVE Pow(_, _)
Pow(b, n) ==
    IF n = 0 THEN 1 ELSE b * Pow(b, n - 1)

TargetScale == Pow(TauDen, MaxTimesteps)
ExpShift == MaxTimesteps * MaxLearns
EntScale == Pow(ExpBase, ExpShift)
QScale == GammaDen * TargetScale * EntScale

(***************************************************************************)
(* NaN-propagating arithmetic (IEEE: any operation on NaN gives NaN).      *)
(***************************************************************************)
IsFinite(x) ==
    x # NaN

Add(a, b) ==
    IF a = NaN \/ b = NaN THEN NaN ELSE a + b

Sub(a, b) ==
    IF a = NaN \/ b = NaN THEN NaN ELSE a - b

Mul(a, b) ==
    IF a = NaN \/ b = NaN THEN NaN ELSE a * b

Min2(a, b) ==
    IF a = NaN \/ b = NaN THEN NaN ELSE IF a <= b THEN a ELSE b

Sign(x) ==
    IF x = NaN THEN NaN ELSE IF x > 0 THEN 1 ELSE IF x < 0 THEN -1 ELSE 0

RECURSIVE SumSeq(_)
SumSeq(s) ==
    IF Len(s) = 0 THEN 0 ELSE Add(Head(s), SumSeq(Tail(s)))

RECURSIVE MinSeq(_)
MinSeq(s) ==
    IF Len(s) = 1 THEN s[1] ELSE Min2(Head(s), MinSeq(Tail(s)))

\* optimizer.step(): one unit step against the gradient's sign; a non-finite
\* gradient makes the parameter non-finite.
AdamStep(param, grad) ==
    Sub(param, Sign(grad))


(***************************************************************************)
(* Networks.  An input row is a sequence of features; a linear layer on    *)
(* the concatenated input is one weight times the sum of the features.     *)
(***************************************************************************)
ObsKeys == {"observation", "achieved_goal", "desired_goal"}

\* Actor.__init__: the action rescaling buffers.
action_scale == (ActionHigh - ActionLow) \div 2

action_bias == (ActionHigh + ActionLow) \div 2

\* torch.tanh on the integer grid: tanh(0) = 0, otherwise saturated to +-1.
Tanh(x) ==
    Sign(x)

\* Actor.get_action: rsample x_t = mean + std * eps (std = 1), squash, rescale;
\* log_prob = normal.log_prob(x_t) - log(scale * (1 - y_t^2) + 1e-6): the first
\* term falls with eps^2, the second adds a bonus when y_t is saturated.
GetAction(theta, row, eps) ==
    LET mean == Mul(theta, SumSeq(row))
        x_t == Add(mean, eps)
        y_t == Tanh(x_t)
    IN  [action |-> Add(Mul(y_t, action_scale), action_bias),
         log_prob |-> Sub(Mul(y_t, y_t), Mul(eps, eps)),
         y_t |-> y_t]

\* Critic.forward: cat([x, a]) through the layers.
CriticForward(q, row, a) ==
    Mul(q, Add(SumSeq(row), a))

\* CriticEnsemble.forward: the stacked member outputs.
CriticEnsembleForward(qs, row, a) ==
    [i \in 1..n_critics |-> CriticForward(qs[i], row, a)]

\* MorphologicalNetworks.forward (module .mc): two unit-variance normal
\* predictors of the next observation, differently parameterised; each is
\* represented by its mean.
McForward(net, row, a) ==
    [forward_normal |-> Mul(net.fw, Add(SumSeq(row), a)),
     world_normal |-> Add(Mul(net.w, SumSeq(row)), a)]

\* kl_divergence of two unit-variance normals, up to the factor 1/2.
KlDivergence(p, q) ==
    Mul(Sub(p, q), Sub(p, q))

\* -Normal(loc, 1).log_prob(value), up to constants.
NegLogProb(loc, value) ==
    Mul(Sub(value, loc), Sub(value, loc))

\* log_ent_coef.exp(), multiplied by EntScale.
Exp(x) ==
    IF x = NaN THEN NaN ELSE Pow(ExpBase, x + ExpShift)

\* float(ent_coef) for a fixed coefficient given as a number or numeric string.
Float(s) ==
    CASE s = "1" -> 1
      [] s = "2" -> 2

\* calc_reward adding the intrinsic reward to e_rewards in place.
CalcRewardRowInPlace(net, row, a, e_reward) ==
    LET d == McForward(net, row, a)
        _err == KlDivergence(d.forward_normal, d.world_normal)
        i_reward == Mul(_err, reward_eta)
    IN  [rewards |-> Add(e_reward, i_reward), i_rewards |-> i_reward,
         _err |-> _err, e_rewards |-> Add(e_reward, i_reward)]

\* calc_reward for one row: rewards = e_rewards + reward_eta * KL(forward ||
\* world), a new tensor.  e_rewards is the caller's tensor as the call leaves
\* it (in collect_rollout it shares its memory with the rewards array).
CalcRewardRow(net, row, a, e_reward) ==
    LET d == McForward(net, row, a)
        _err == KlDivergence(d.forward_normal, d.world_normal)
        i_reward == Mul(_err, reward_eta)
    IN  [rewards |-> Add(e_reward, i_reward), i_rewards |-> i_reward,
         _err |-> _err, e_rewards |-> e_reward]

(***************************************************************************)
(* State.                                                                  *)
(***************************************************************************)
VARIABLES
    observation_space,    \* "Box" or "Dict": the kind of env.observation_space
    learning_starts,      \* self.learning_starts
    ent_coef,             \* self.ent_coef: "auto" or a fixed coefficient
    actor,                \* the actor's parameter
    critic,               \* the critic ensemble's parameters, one per member
    critic_target,        \* the target ensemble's parameters (times TargetScale)
    mc_network,           \* the curiosity model's parameters [fw, w]
    log_ent_coef,         \* self.log_ent_coef (0 while ent_coef is fixed)
    ent_coef_tensor,      \* self.ent_coef_tensor (times EntScale; 0 while "auto")
    actor_optimizer,      \* the parameters self.actor_optimizer steps
    critic_optimizer,     \* the parameters self.critic_optimizer steps
    logger,               \* the values last given to logger.record
    _last_obs,            \* self._last_obs
    num_timesteps,        \* self.num_timesteps
    _n_updates,           \* self._n_updates
    replay_buffer,        \* the transitions given to replay_buffer.add
    pc,                   \* the position of control in learn / train
    total_timesteps,      \* learn's argument
    continue_training,    \* learn's local: collect_rollout's return value
    callback,             \* the last callback method invoked
    rollout,              \* collect_rollout's locals at its last call
    replay_data,          \* train's local: the sampled batch
    train_ent_coef,       \* train's local ent_coef (times EntScale)
    next_state_actions,   \* train's local, one per batch row
    next_state_log_pi,    \* train's local, one per batch row
    next_q_value,         \* train's local (times QScale), one per batch row
    stages,               \* the stages the current train() call has run
    saved,                \* the file written by save: <<>> or <<data>>
    learns,               \* the number of learn calls made
    loads                 \* the number of load calls made

hyper == <<observation_space, learning_starts, ent_coef>>

params == <<actor, critic, critic_target, mc_network, log_ent_coef,
            ent_coef_tensor, actor_optimizer, critic_optimizer>>

engine == <<logger, _last_obs, num_timesteps, _n_updates, replay_buffer>>

control == <<pc, total_timesteps, continue_training, callback, rollout>>

locals == <<replay_data, train_ent_coef, next_state_actions, next_state_log_pi,
            next_q_value, stages>>

budget == <<learns, loads>>

vars == <<hyper, params, engine, control, locals, saved, budget>>

(***************************************************************************)
(* The input sets.                                                         *)
(***************************************************************************)
ObsValues == 0..MaxObs

ExtrinsicRewards == (0..MaxReward) \cup {NaN}

ActionSpace == ActionLow..ActionHigh

Noise == (0 - MaxNoise)..MaxNoise

\* The parameter vectors a freshly constructed critic ensemble may have.
InitCritics == {[i \in 1..n_critics |-> k + i - 1] : k \in 0..MaxInit}

EntCoefChoices == {"auto", "1"}

DesiredGoal == 1

Envs == 1..NumEnvs

IsDict == observation_space = "Dict"

(***************************************************************************)
(* Observations.  A Box observation of the vectorised environment is a     *)
(* sequence with one entry per sub-environment; a Dict observation maps    *)
(* each key of ObsKeys to such a sequence.                                 *)
(***************************************************************************)
\* What env.reset / env.step return for the per-environment values os.
EnvObs(os) ==
    IF IsDict
    THEN [k \in ObsKeys |->
            IF k = "desired_goal" THEN [i \in Envs |-> DesiredGoal] ELSE os]
    ELSE os

\* infos[idx]["terminal_observation"]: one sub-environment's last observation.
TerminalObs(t) ==
    IF IsDict
    THEN [k \in ObsKeys |-> IF k = "desired_goal" THEN DesiredGoal ELSE t]
    ELSE t

\* flatten_obs: the rows given to the networks.
flatten_obs(obs) ==
    IF IsDict
    THEN [i \in DOMAIN obs["observation"] |->
            <<obs["observation"][i], obs["achieved_goal"][i], obs["desired_goal"][i]>>]
    ELSE [i \in DOMAIN obs |-> <<obs[i]>>]

\* len(obs) in learn.
LenObs(obs) ==
    IF IsDict THEN Cardinality(DOMAIN obs) ELSE Len(obs)

\* The Python key idx of enumerate(dones), as a key of a dict.
IdxKey(idx) ==
    ToString(idx - 1)

\* real_next_obs[idx] = value: an array row is overwritten; on a dict the
\* statement binds the key idx and leaves the arrays under the other keys.
SetItem(container, idx, value) ==
    IF IsDict
    THEN [k \in (DOMAIN container) \cup {IdxKey(idx)} |->
            IF k = IdxKey(idx) THEN value ELSE container[k]]
    ELSE [container EXCEPT ![idx] = value]

\* The loop of collect_rollout over enumerate(dones), from idx on.
RECURSIVE OverrideTerminal(_, _, _, _)
OverrideTerminal(real_next_obs, dones, infos, idx) ==
    IF idx > Len(dones) THEN real_next_obs
    ELSE OverrideTerminal(
            IF dones[idx]
            THEN SetItem(real_next_obs, idx, infos[idx]["terminal_observation"])
            ELSE real_next_obs,
            dones, infos, idx + 1)

\* replay_buffer.add: the newest buffer_size transitions are kept.
BufferAdd(buf, entry) ==
    LET all == Append(buf, entry)
    IN  IF Len(all) > MaxBuffer THEN Tail(all) ELSE all

NoRollout ==
    [source |-> "none", actions |-> <<>>, new_obs |-> <<>>, rewards |-> <<>>,
     dones |-> <<>>, infos |-> <<>>, real_next_obs |-> <<>>, on_step |-> "none"]

(***************************************************************************)
(* Construction.                                                           *)
(***************************************************************************)
LogKeys == {"mc/i_reward", "mc/e_reward", "mc/kld", "mc/reward",
            "train/rollout_rewards_step", "train/n_updates"}

McInit == [fw |-> 1, w |-> 0]

\* critic_target.load_state_dict(critic.state_dict()): an exact copy.
LoadStateDict(state_dict) ==
    [i \in DOMAIN state_dict |-> Mul(state_dict[i], TargetScale)]

\* __init__: the entropy coefficient is learned from log_ent_coef = 0 when
\* ent_coef == "auto" and is the tensor float(ent_coef) otherwise.
InitEntCoefTensor(coef) ==
    IF coef = "auto" THEN 0 ELSE Float(coef) * EntScale

Init ==
    /\ observation_space \in {"Box", "Dict"}
    /\ learning_starts \in 0..MaxLearningStarts
    /\ ent_coef \in EntCoefChoices
    /\ actor = ActorInit
    /\ critic \in InitCritics
    /\ critic_target = LoadStateDict(critic)
    /\ mc_network = McInit
    /\ log_ent_coef = 0
    /\ ent_coef_tensor = InitEntCoefTensor(ent_coef)
    /\ actor_optimizer = "actor"
    /\ critic_optimizer = "critic"
    /\ logger = [k \in LogKeys |-> 0]
    /\ _last_obs = <<>>
    /\ num_timesteps = 0
    /\ _n_updates = 0
    /\ replay_buffer = <<>>
    /\ pc = "idle"
    /\ total_timesteps = 0
    /\ continue_training = TRUE
    /\ callback = "none"
    /\ rollout = NoRollout
    /\ replay_data = <<>>
    /\ train_ent_coef = 0
    /\ next_state_actions = <<>>
    /\ next_state_log_pi = <<>>
    /\ next_q_value = <<>>
    /\ stages = <<>>
    /\ saved = <<>>
    /\ learns = 0
    /\ loads = 0

(***************************************************************************)
(* learn: the calls before the loop.                                       *)
(***************************************************************************)
Learn ==
    /\ pc = "idle"
    /\ learns < MaxLearns
    /\ saved = <<>> \/ loads > 0
    /\ \E total \in {MaxTimesteps} :
        LET obs == EnvObs([i \in Envs |-> ResetValue])
        IN  /\ total_timesteps' = total
            /\ _last_obs' = IF LenObs(obs) = 2 THEN obs[1] ELSE obs
    /\ callback' = "on_training_start"
    /\ continue_training' = TRUE
    /\ rollout' = NoRollout
    /\ pc' = "while"
    /\ learns' = learns + 1
    /\ UNCHANGED <<hyper, params, logger, num_timesteps, _n_updates,
                   replay_buffer, locals, saved, loads>>

(***************************************************************************)
(* collect_rollout, with learn's tests on its return value.                *)
(***************************************************************************)
\* Actor.get_action, line 65: torch.distributions.Normal(mean, std) rejects a
\* non-finite mean with a ValueError.
GetActionRaises(theta, obs) ==
    \E i \in DOMAIN flatten_obs(obs) :
        ~IsFinite(Mul(theta, SumSeq(flatten_obs(obs)[i])))

\* predict: get_action on flatten_obs(obs); one noise value per row.
Predict(theta, obs, eps) ==
    LET rows == flatten_obs(obs)
        out == [i \in DOMAIN rows |-> GetAction(theta, rows[i], eps[i])]
    IN  [source |-> "predict",
         actions |-> [i \in DOMAIN rows |-> out[i].action],
         log_prob |-> [i \in DOMAIN rows |-> out[i].log_prob]]

\* np.array([env.action_space.sample()]), torch.zeros(1).
SampleActionSpace(a) ==
    [source |-> "sample", actions |-> <<a>>, log_prob |-> <<0>>]

\* collect_rollout with the warm-up test off by one.
SelectActionInclusive(timesteps, starts, theta, obs) ==
    IF timesteps <= starts
    THEN {SampleActionSpace(a) : a \in ActionSpace}
    ELSE {Predict(theta, obs, eps) : eps \in [Envs -> Noise]}

\* Select action randomly or according to policy.
SelectAction(timesteps, starts, theta, obs) ==
    IF timesteps < starts
    THEN {SampleActionSpace(a) : a \in ActionSpace}
    ELSE {Predict(theta, obs, eps) : eps \in [Envs -> Noise]}

\* calc_reward on a batch of rows: the composed rewards, one per row.
calc_reward(net, rows, acts, e_rewards) ==
    [i \in DOMAIN rows |-> CalcRewardRow(net, rows[i], acts[i], e_rewards[i])]

\* x.mean() of a non-empty sequence whose sum its length divides.
Mean(s) ==
    IF SumSeq(s) = NaN THEN NaN ELSE SumSeq(s) \div Len(s)

\* The logger after calc_reward(..., is_executing=True) and the two reward
\* records of collect_rollout.
LogRollout(log, composed, rewards) ==
    [log EXCEPT
        !["mc/i_reward"] = Mean([i \in DOMAIN composed |-> composed[i].i_rewards]),
        !["mc/e_reward"] = Mean(rewards),
        !["mc/kld"] = Mean([i \in DOMAIN composed |-> composed[i]._err]),
        !["mc/reward"] = Mean([i \in DOMAIN composed |-> composed[i].rewards]),
        !["train/rollout_rewards_step"] = Mean(rewards)]

\* infos of env.step: a finished episode reports its terminal observation.
StepInfos(dones, ts) ==
    [i \in Envs |->
        IF dones[i] THEN [terminal_observation |-> TerminalObs(ts[i])]
        ELSE [episode_running |-> TRUE]]

\* collect_rollout continuing only on a true return value.
ContinueTrainingTruthy(ret) ==
    ret = "True"

\* Only stop training if return value is False, not when it is None.
ContinueTraining(ret) ==
    ret # "False"

\* learn, lines 264-268: where control goes after collect_rollout returned.
\* learn training as soon as num_timesteps reaches learning_starts.
AfterRolloutInclusive(cont, timesteps, starts) ==
    IF cont = FALSE THEN "on_training_end"
    ELSE IF timesteps > 0 /\ timesteps >= starts THEN "train"
    ELSE "while"


AfterRollout(cont, timesteps, starts) ==
    IF cont = FALSE THEN "on_training_end"
    ELSE IF timesteps > 0 /\ timesteps > starts THEN "train"
    ELSE "while"

collect_rollout ==
    /\ pc = "while"
    /\ num_timesteps < total_timesteps
    /\ num_timesteps < learning_starts \/ ~GetActionRaises(actor, _last_obs)
    /\ \E act \in SelectAction(num_timesteps, learning_starts, actor, _last_obs),
          os \in [Envs -> ObsValues],
          rewards \in [Envs -> ExtrinsicRewards],
          dones \in [Envs -> BOOLEAN],
          ts \in [Envs -> ObsValues],
          ret \in {"None", "True", "False"} :
        /\ \A i \in Envs : IF dones[i] THEN os[i] = ResetValue ELSE ts[i] = os[i]
        /\ LET new_obs == EnvObs(os)
               infos == StepInfos(dones, ts)
               composed == calc_reward(mc_network, flatten_obs(new_obs),
                                       act.actions, rewards)
               real_next_obs == OverrideTerminal(new_obs, dones, infos, 1)
               entry == [obs |-> _last_obs, next_obs |-> real_next_obs,
                         action |-> act.actions,
                         reward |-> [i \in Envs |-> composed[i].e_rewards],
                         done |-> dones]
           IN  /\ logger' = LogRollout(logger, composed, rewards)
               /\ num_timesteps' = num_timesteps + NumEnvs
               /\ replay_buffer' = BufferAdd(replay_buffer, entry)
               /\ _last_obs' = new_obs
               /\ rollout' = [source |-> act.source, actions |-> act.actions,
                              new_obs |-> new_obs, rewards |-> rewards,
                              dones |-> dones, infos |-> infos,
                              real_next_obs |-> real_next_obs, on_step |-> ret]
               /\ callback' = "on_step"
               /\ continue_training' = ContinueTraining(ret)
               /\ pc' = AfterRollout(continue_training', num_timesteps',
                                     learning_starts)
    /\ UNCHANGED <<hyper, params, _n_updates, total_timesteps, locals,
                   saved, budget>>

\* The while condition of learn fails.
LoopExit ==
    /\ pc = "while"
    /\ ~(num_timesteps < total_timesteps)
    /\ pc' = "on_training_end"
    /\ UNCHANGED <<hyper, params, engine, total_timesteps, continue_training,
                   callback, rollout, locals, saved, budget>>

\* callback.on_training_end(); return self.
OnTrainingEnd ==
    /\ pc = "on_training_end"
    /\ callback' = "on_training_end"
    /\ rollout' = NoRollout
    /\ pc' = "idle"
    /\ UNCHANGED <<hyper, params, engine, total_timesteps, continue_training,
                   locals, saved, budget>>

(***************************************************************************)
(* train, one action per stage; pc orders the stages.                      *)
(***************************************************************************)
Batch == 1..batch_size

\* train with the critic and actor updates exchanged.
TrainOrderActorFirst ==
    <<"train", "train_mc", "train_ent", "train_target", "train_actor",
      "train_critic", "train_polyak", "while">>

\* The order of train's statements: the sampling, the five stages that follow
\* it and the Polyak update, then back to learn's loop.
TrainOrder ==
    <<"train", "train_mc", "train_ent", "train_target", "train_critic",
      "train_actor", "train_polyak", "while">>

\* The statement of train that follows the one at p.
After(p) ==
    TrainOrder[1 + CHOOSE i \in 1..(Len(TrainOrder) - 1) : TrainOrder[i] = p]

\* -np.prod(env.action_space.shape)
target_entropy == 0 - ActionDim

\* replay_buffer.sample: row b of the batch is sub-environment sel[b][2] of
\* the stored transition sel[b][1]; dones are floats.
SampleBatch(buf, sel) ==
    LET Pick(field) == [b \in Batch |-> buf[sel[b][1]][field][sel[b][2]]]
        PickObs(field) ==
            IF IsDict
            THEN [k \in ObsKeys |->
                    [b \in Batch |-> buf[sel[b][1]][field][k][sel[b][2]]]]
            ELSE Pick(field)
    IN  [observations |-> PickObs("obs"),
         next_observations |-> PickObs("next_obs"),
         actions |-> Pick("action"),
         rewards |-> Pick("reward"),
         dones |-> [b \in Batch |->
                      IF buf[sel[b][1]]["done"][sel[b][2]] THEN 1 ELSE 0]]

StageDone(log, name, loss) ==
    Append(log, [stage |-> name, finite |-> IsFinite(loss)])

TrainSample ==
    /\ pc = "train"
    /\ _n_updates' = _n_updates + 1
    /\ logger' = [logger EXCEPT !["train/n_updates"] = _n_updates']
    /\ \E sel \in [Batch -> (1..Len(replay_buffer)) \X Envs] :
        replay_data' = SampleBatch(replay_buffer, sel)
    /\ stages' = <<>>
    /\ rollout' = NoRollout
    /\ pc' = After(pc)
    /\ UNCHANGED <<hyper, params, _last_obs, num_timesteps, replay_buffer,
                   total_timesteps, continue_training, callback,
                   train_ent_coef, next_state_actions, next_state_log_pi,
                   next_q_value, saved, budget>>

\* train_mc: the summed negative log-likelihoods and their gradients.
McLoss(net, rows, nrows, acts) ==
    SumSeq([b \in Batch |->
        LET d == McForward(net, rows[b], acts[b])
            nx == SumSeq(nrows[b])
        IN  Add(NegLogProb(d.forward_normal, nx), NegLogProb(d.world_normal, nx))])

McGrad(net, rows, nrows, acts) ==
    [fw |-> SumSeq([b \in Batch |->
                LET in == Add(SumSeq(rows[b]), acts[b])
                IN  Mul(in, Sub(Mul(net.fw, in), SumSeq(nrows[b])))]),
     w |-> SumSeq([b \in Batch |->
                LET x == SumSeq(rows[b])
                IN  Mul(x, Sub(Add(Mul(net.w, x), acts[b]), SumSeq(nrows[b])))])]

train_mc(net, rows, nrows, acts) ==
    LET g == McGrad(net, rows, nrows, acts)
    IN  [fw |-> AdamStep(net.fw, g.fw), w |-> AdamStep(net.w, g.w)]

TrainMc ==
    /\ pc = "train_mc"
    /\ LET rows == flatten_obs(replay_data.observations)
           nrows == flatten_obs(replay_data.next_observations)
       IN  /\ mc_network' = train_mc(mc_network, rows, nrows, replay_data.actions)
           /\ stages' = StageDone(stages, "mc",
                            McLoss(mc_network, rows, nrows, replay_data.actions))
    /\ pc' = After(pc)
    /\ UNCHANGED <<hyper, actor, critic, critic_target, log_ent_coef,
                   ent_coef_tensor, actor_optimizer, critic_optimizer, engine,
                   total_timesteps, continue_training, callback, rollout,
                   replay_data, train_ent_coef, next_state_actions,
                   next_state_log_pi, next_q_value, saved, budget>>

\* ent_coef_loss = (-log_ent_coef * (log_pi + target_entropy)).mean(), summed.
EntCoefLoss(log_alpha, log_pi) ==
    SumSeq([b \in Batch |->
        Mul(Sub(0, log_alpha), Add(log_pi[b], target_entropy))])

\* d ent_coef_loss / d log_ent_coef
EntCoefGrad(log_alpha, log_pi) ==
    IF log_alpha = NaN THEN NaN
    ELSE SumSeq([b \in Batch |-> Sub(0, Add(log_pi[b], target_entropy))])

\* train stepping log_ent_coef whatever ent_coef is.
OptimizeEntCoefAlways(coef, log_alpha, tensor, log_pi) ==
    LET stepped == AdamStep(log_alpha, EntCoefGrad(log_alpha, log_pi))
    IN  [stepped |-> TRUE, log_ent_coef |-> stepped, ent_coef |-> Exp(stepped)]

\* train, lines 368-381: the entropy coefficient is stepped only when
\* ent_coef == "auto"; otherwise the local ent_coef is ent_coef_tensor.
OptimizeEntCoef(coef, log_alpha, tensor, log_pi) ==
    IF coef = "auto"
    THEN LET stepped == AdamStep(log_alpha, EntCoefGrad(log_alpha, log_pi))
         IN  [stepped |-> TRUE, log_ent_coef |-> stepped, ent_coef |-> Exp(stepped)]
    ELSE [stepped |-> FALSE, log_ent_coef |-> log_alpha, ent_coef |-> tensor]

TrainEntCoef ==
    /\ pc = "train_ent"
    /\ \E eps \in (IF ent_coef = "auto" THEN [Batch -> Noise] ELSE {[b \in Batch |-> 0]}) :
        LET rows == flatten_obs(replay_data.observations)
            log_pi == [b \in Batch |-> GetAction(actor, rows[b], eps[b]).log_prob]
            out == OptimizeEntCoef(ent_coef, log_ent_coef, ent_coef_tensor, log_pi)
        IN  /\ log_ent_coef' = out.log_ent_coef
            /\ train_ent_coef' = out.ent_coef
            /\ stages' = IF out.stepped
                         THEN StageDone(stages, "ent_coef",
                                        EntCoefLoss(log_ent_coef, log_pi))
                         ELSE stages
    /\ pc' = After(pc)
    /\ UNCHANGED <<hyper, actor, critic, critic_target, mc_network,
                   ent_coef_tensor, actor_optimizer, critic_optimizer, engine,
                   total_timesteps, continue_training, callback, rollout,
                   replay_data, next_state_actions,
                   next_state_log_pi, next_q_value, saved, budget>>

\* min over the target ensemble minus ent_coef * next_log_pi (times
\* TargetScale * EntScale).
SoftValue(targets, coef, nrow, nact, nlogp) ==
    LET crit_next_targets == CriticEnsembleForward(targets, nrow, nact)
        min_crit_next_target == MinSeq(crit_next_targets)
    IN  Sub(Mul(EntScale, min_crit_next_target),
            Mul(TargetScale, Mul(coef, nlogp)))

\* train, lines 394-402: rewards = calc_reward(observations,
\* next_state_actions, replay_data.rewards);
\* next_q_value = rewards + (1 - dones) * gamma * min_crit_next_target.
NextQValue(net, targets, coef, data, nacts, nlogp) ==
    LET rows == flatten_obs(data.observations)
        nrows == flatten_obs(data.next_observations)
        rewards == calc_reward(net, rows, nacts, data.rewards)
    IN  [b \in Batch |->
            Add(Mul(QScale, rewards[b].rewards),
                Mul(Mul(1 - data.dones[b], GammaNum),
                    SoftValue(targets, coef, nrows[b], nacts[b], nlogp[b])))]

TrainTarget ==
    /\ pc = "train_target"
    /\ \E eps \in [Batch -> Noise] :
        LET nrows == flatten_obs(replay_data.next_observations)
            out == [b \in Batch |-> GetAction(actor, nrows[b], eps[b])]
        IN  /\ next_state_actions' = [b \in Batch |-> out[b].action]
            /\ next_state_log_pi' = [b \in Batch |-> out[b].log_prob]
    /\ next_q_value' = NextQValue(mc_network, critic_target, train_ent_coef,
                                  replay_data, next_state_actions',
                                  next_state_log_pi')
    /\ stages' = StageDone(stages, "target", SumSeq(next_q_value'))
    /\ pc' = After(pc)
    /\ UNCHANGED <<hyper, params, engine, total_timesteps, continue_training,
                   callback, rollout, replay_data, train_ent_coef,
                   saved, budget>>

\* crit_loss: the members' squared errors against next_q_value, summed.
CritLoss(qs, rows, acts, target) ==
    SumSeq([i \in 1..n_critics |->
        SumSeq([b \in Batch |->
            LET e == Sub(Mul(QScale, CriticForward(qs[i], rows[b], acts[b])),
                         target[b])
            IN  Mul(e, e)])])

\* d crit_loss / d critic[i]
CritGrad(q, rows, acts, target) ==
    SumSeq([b \in Batch |->
        Mul(Add(SumSeq(rows[b]), acts[b]),
            Sub(Mul(QScale, CriticForward(q, rows[b], acts[b])), target[b]))])

\* critic_optimizer.step(): steps the parameters the optimizer holds.
CriticStep(opt, qs, rows, acts, target) ==
    IF opt = "critic"
    THEN [i \in 1..n_critics |-> AdamStep(qs[i], CritGrad(qs[i], rows, acts, target))]
    ELSE qs

TrainCritic ==
    /\ pc = "train_critic"
    /\ LET rows == flatten_obs(replay_data.observations)
       IN  /\ critic' = CriticStep(critic_optimizer, critic, rows,
                                   replay_data.actions, next_q_value)
           /\ stages' = StageDone(stages, "critic",
                            CritLoss(critic, rows, replay_data.actions, next_q_value))
    /\ pc' = After(pc)
    /\ UNCHANGED <<hyper, actor, critic_target, mc_network, log_ent_coef,
                   ent_coef_tensor, actor_optimizer, critic_optimizer, engine,
                   total_timesteps, continue_training, callback, rollout,
                   replay_data, train_ent_coef, next_state_actions,
                   next_state_log_pi, next_q_value, saved, budget>>

\* actor_loss = ((ent_coef * log_pi) - min_crit_pi).mean(), summed (times
\* EntScale).
ActorLoss(qs, coef, rows, out) ==
    SumSeq([b \in Batch |->
        Sub(Mul(coef, out[b].log_prob),
            Mul(EntScale, MinSeq(CriticEnsembleForward(qs, rows[b], out[b].action))))])

\* The parameter of the member that attains min_crit_pi.
MinMember(qs, row, a) ==
    LET vals == CriticEnsembleForward(qs, row, a)
    IN  IF MinSeq(vals) = NaN THEN NaN
        ELSE qs[CHOOSE i \in 1..n_critics : vals[i] = MinSeq(vals)]

\* d actor_loss / d actor through the reparameterised sample: the action and
\* log_pi both move with y_t, y_t moves with the input's sum.
ActorGrad(qs, coef, rows, out) ==
    SumSeq([b \in Batch |->
        Mul(SumSeq(rows[b]),
            Sub(Mul(coef, Mul(2, out[b].y_t)),
                Mul(EntScale, MinMember(qs, rows[b], out[b].action))))])

\* actor_optimizer.step(): steps the parameters the optimizer holds.
ActorStep(opt, theta, grad) ==
    IF opt = "actor" THEN AdamStep(theta, grad) ELSE theta

TrainActor ==
    /\ pc = "train_actor"
    /\ \E eps \in [Batch -> Noise] :
        LET rows == flatten_obs(replay_data.observations)
            out == [b \in Batch |-> GetAction(actor, rows[b], eps[b])]
        IN  /\ actor' = ActorStep(actor_optimizer, actor,
                                  ActorGrad(critic, train_ent_coef, rows, out))
            /\ stages' = StageDone(stages, "actor",
                                   ActorLoss(critic, train_ent_coef, rows, out))
    /\ pc' = After(pc)
    /\ UNCHANGED <<hyper, critic, critic_target, mc_network, log_ent_coef,
                   ent_coef_tensor, actor_optimizer, critic_optimizer, engine,
                   total_timesteps, continue_training, callback, rollout,
                   replay_data, train_ent_coef, next_state_actions,
                   next_state_log_pi, next_q_value, saved, budget>>

\* The Polyak update with the weights of target and source exchanged.
PolyakUpdateSwapped(target_param, param) ==
    LET scaled == Mul(target_param, TauNum)
        added == Add(scaled, Mul(TauDen - TauNum, Mul(param, TargetScale)))
    IN  IF added = NaN THEN NaN ELSE added \div TauDen

\* target_param.data.mul_(1 - tau); torch.add(target_param.data, param.data,
\* alpha=tau, out=target_param.data).  target is times TargetScale.
PolyakUpdate(target_param, param) ==
    LET scaled == Mul(target_param, TauDen - TauNum)
        added == Add(scaled, Mul(TauNum, Mul(param, TargetScale)))
    IN  IF added = NaN THEN NaN ELSE added \div TauDen

TrainPolyak ==
    /\ pc = "train_polyak"
    /\ critic_target' = [i \in 1..n_critics |->
                            PolyakUpdate(critic_target[i], critic[i])]
    /\ stages' = StageDone(stages, "polyak", 0)
    /\ replay_data' = <<>>
    /\ train_ent_coef' = 0
    /\ next_state_actions' = <<>>
    /\ next_state_log_pi' = <<>>
    /\ next_q_value' = <<>>
    /\ pc' = After(pc)
    /\ UNCHANGED <<hyper, actor, critic, mc_network, log_ent_coef,
                   ent_coef_tensor, actor_optimizer, critic_optimizer, engine,
                   total_timesteps, continue_training, callback, rollout,
                   saved, budget>>

\* predict raised: the ValueError leaves collect_rollout and learn.
PredictRaises ==
    /\ pc = "while"
    /\ num_timesteps < total_timesteps
    /\ ~(num_timesteps < learning_starts)
    /\ GetActionRaises(actor, _last_obs)
    /\ pc' = "idle"
    /\ UNCHANGED <<hyper, params, engine, total_timesteps, continue_training,
                   callback, rollout, locals, saved, budget>>

(***************************************************************************)
(* save and load.                                                          *)
(***************************************************************************)
\* save: __dict__ without logger, env, num_timesteps, _n_updates, _last_obs,
\* replay_buffer, actor, critic, critic_target; plus the three state dicts.
SavedData ==
    [learning_starts |-> learning_starts,
     ent_coef |-> ent_coef,
     log_ent_coef |-> log_ent_coef,
     ent_coef_tensor |-> ent_coef_tensor,
     _actor |-> actor,
     _critic |-> critic,
     _mc |-> mc_network]

Save ==
    /\ pc = "idle"
    /\ saved = <<>>
    /\ saved' = <<SavedData>>
    /\ UNCHANGED <<hyper, params, engine, control, locals, budget>>

\* load, after cls(env=env, **kwargs): which target ensemble the returned
\* engine has, given the constructor's critic and the loaded state dict.
LoadedCriticTarget(fresh_critic, loaded_critic) ==
    LoadStateDict(fresh_critic)

Load ==
    /\ pc = "idle"
    /\ loads < MaxLoads
    /\ saved # <<>>
    /\ LET loaded_dict == saved[1]
       IN  /\ learning_starts' = loaded_dict.learning_starts
           /\ ent_coef' = loaded_dict.ent_coef
           /\ log_ent_coef' = loaded_dict.log_ent_coef
           /\ ent_coef_tensor' = loaded_dict.ent_coef_tensor
           /\ actor' = loaded_dict._actor
           /\ critic' = loaded_dict._critic
           /\ mc_network' = loaded_dict._mc
           /\ \E fresh \in InitCritics :
                critic_target' = LoadedCriticTarget(fresh, loaded_dict._critic)
    /\ actor_optimizer' = "saved copy"
    /\ critic_optimizer' = "saved copy"
    /\ logger' = [k \in LogKeys |-> 0]
    /\ _last_obs' = <<>>
    /\ num_timesteps' = 0
    /\ _n_updates' = 0
    /\ replay_buffer' = <<>>
    /\ loads' = loads + 1
    /\ UNCHANGED <<observation_space, control, locals, saved, learns>>

Next ==
    \/ Learn
    \/ collect_rollout
    \/ PredictRaises
    \/ LoopExit
    \/ OnTrainingEnd
    \/ TrainSample
    \/ TrainMc
    \/ TrainEntCoef
    \/ TrainTarget
    \/ TrainCritic
    \/ TrainActor
    \/ TrainPolyak
    \/ Save
    \/ Load

Spec == Init /\ [][Next]_vars

(***************************************************************************)
(* Properties.                                                             *)
(***************************************************************************)
StageNames == [i \in 1..Len(stages) |-> stages[i].stage]

ExpectedStages ==
    IF ent_coef = "auto"
    THEN <<"mc", "ent_coef", "target", "critic", "actor", "polyak">>
    ELSE <<"mc", "target", "critic", "actor", "polyak">>

IsPrefix(s, t) ==
    /\ Len(s) <= Len(t)
    /\ \A i \in 1..Len(s) : s[i] = t[i]

LastStage == StageNames[Len(StageNames)]

InTrain == pc \in {"train_mc", "train_ent", "train_target", "train_critic",
                   "train_actor", "train_polyak"}

\* collect_rollout has returned and its locals are still in view.
RolloutDone == rollout.source # "none"

\* num_timesteps when the last collect_rollout call began.
TimestepsAtCall == num_timesteps - NumEnvs

\* The transition the last collect_rollout call gave to replay_buffer.add.
LastEntry == replay_buffer[Len(replay_buffer)]

\* C1: in every train() call the stages run once each and in the order
\* mc step, entropy-coefficient step (only when ent_coef == "auto"), target
\* computation, critic step, actor step, Polyak update; when the critic step
\* is about to run, next_q_value is the target computed from the actor and
\* the target ensemble as they are then, before the critic and actor steps.
C1_StageOrder ==
    /\ IsPrefix(StageNames, ExpectedStages)
    /\ pc = "train_mc" => StageNames = <<>>
    /\ pc = "train_ent" => LastStage = "mc"
    /\ pc = "train_target" =>
            LastStage = (IF ent_coef = "auto" THEN "ent_coef" ELSE "mc")
    /\ pc = "train_critic" =>
            /\ LastStage = "target"
            /\ \E eps \in [Batch -> Noise] :
                LET nrows == flatten_obs(replay_data.next_observations)
                    out == [b \in Batch |-> GetAction(actor, nrows[b], eps[b])]
                IN  /\ next_state_actions = [b \in Batch |-> out[b].action]
                    /\ next_state_log_pi = [b \in Batch |-> out[b].log_prob]
            /\ next_q_value = NextQValue(mc_network, critic_target,
                                         train_ent_coef, replay_data,
                                         next_state_actions, next_state_log_pi)
    /\ pc = "train_actor" => LastStage = "critic"
    /\ pc = "train_polyak" => LastStage = "actor"
    /\ (~InTrain /\ pc # "train" /\ stages # <<>>) => StageNames = ExpectedStages

\* A train() call with a learned entropy coefficient has completed.
C1_Witness ==
    /\ pc = "while"
    /\ _n_updates > 0
    /\ ent_coef = "auto"
    /\ StageNames = ExpectedStages

\* C2: a collect_rollout call that begins with num_timesteps < learning_starts
\* sends env.step an action drawn from action_space.sample() and does not
\* consult the policy; a call that begins with num_timesteps >= learning_starts
\* sends the sample predict(_last_obs) returned.  So exactly the first
\* learning_starts steps of one environment are random.
C2_WarmUp ==
    RolloutDone =>
        IF TimestepsAtCall < learning_starts
        THEN /\ rollout.source = "sample"
             /\ \E a \in ActionSpace : rollout.actions = <<a>>
        ELSE /\ rollout.source = "predict"
             /\ \E eps \in [Envs -> Noise] :
                    rollout.actions = Predict(actor, LastEntry.obs, eps).actions

\* The first policy-driven step after a warm-up step.
C2_Witness ==
    /\ RolloutDone
    /\ learning_starts > 0
    /\ TimestepsAtCall = learning_starts
    /\ rollout.source = "predict"

\* C3: after load returns, every target-critic parameter equals the
\* corresponding parameter of the loaded critic ensemble.
C3_TargetFromSavedCritic ==
    (loads > 0 /\ pc = "idle" /\ _n_updates = 0) =>
        critic_target = LoadStateDict(critic)

\* C4: a stage of train() whose loss (or target) is not finite aborts the
\* call: no stage runs after it.
C4_AbortOnNonFinite ==
    \A i \in 1..(Len(stages) - 1) : stages[i].finite

\* The composed reward and target the claim C5 describes, for batch row b.
ClaimedTarget(b) ==
    LET nrows == flatten_obs(replay_data.next_observations)
        composed_reward == CalcRewardRow(mc_network, nrows[b],
                                         next_state_actions[b],
                                         replay_data.rewards[b]).rewards
        soft_value == SoftValue(critic_target, train_ent_coef, nrows[b],
                                next_state_actions[b], next_state_log_pi[b])
    IN  IF replay_data.dones[b] = 1
        THEN Mul(QScale, composed_reward)
        ELSE Add(Mul(QScale, composed_reward), Mul(GammaNum, soft_value))

\* C5: the critic target of each batch row is composed_reward + gamma *
\* (1 - done) * (min target Q at (next_obs, next_action) - ent_coef *
\* next_log_prob), the composed reward being calc_reward at the next
\* observation, the next action and the extrinsic reward.
C5_TargetFormula ==
    pc = "train_critic" =>
        \A b \in Batch : next_q_value[b] = ClaimedTarget(b)

\* C6: the target ensemble changes only in the Polyak stage of train(), where
\* every parameter becomes (1 - tau) * target_old + tau * source, source being
\* the critic parameter after that call's critic step; no other step of
\* learn, collect_rollout or train changes it.
C6_PolyakOnly ==
    [][/\ pc = "train_polyak" =>
            /\ critic' = critic
            /\ \A i \in 1..n_critics :
                Mul(TauDen, critic_target'[i]) =
                    Add(Mul(TauDen - TauNum, critic_target[i]),
                        Mul(TauNum * TargetScale, critic[i]))
       /\ (pc # "train_polyak" /\ loads' = loads) =>
            critic_target' = critic_target]_vars

\* A Polyak update has left the target ensemble between its old value and the
\* critic.
C6_Witness ==
    /\ pc = "while"
    /\ stages # <<>>
    /\ LastStage = "polyak"
    /\ loads = 0
    /\ critic_target # LoadStateDict(critic)
    /\ critic_target # LoadStateDict(CHOOSE c \in InitCritics : TRUE)

\* C7: with a fixed entropy coefficient no optimizer step touches an
\* entropy parameter, and the coefficient used in the critic target and the
\* actor loss is the construction-time value in every training step.
C7_FixedEntCoef ==
    ent_coef # "auto" =>
        /\ log_ent_coef = 0
        /\ ent_coef_tensor = Float(ent_coef) * EntScale
        /\ \A i \in 1..Len(stages) : stages[i].stage # "ent_coef"
        /\ pc \in {"train_target", "train_critic", "train_actor", "train_polyak"}
                => train_ent_coef = Float(ent_coef) * EntScale

\* A train() call with a fixed coefficient has run its critic and actor steps.
C7_Witness ==
    /\ ent_coef # "auto"
    /\ pc = "train_polyak"

\* One sub-environment's terminal observation as a network input row.
TerminalRow(t) ==
    IF IsDict
    THEN <<t["observation"], t["achieved_goal"], t["desired_goal"]>>
    ELSE <<t>>

\* C8: the next observation stored for sub-environment idx is
\* infos[idx]["terminal_observation"] when the environment reported done and
\* the observation env.step returned otherwise; _last_obs is the observation
\* env.step returned.
C8_TerminalObservation ==
    RolloutDone =>
        /\ _last_obs = rollout.new_obs
        /\ \A idx \in Envs :
            flatten_obs(LastEntry.next_obs)[idx] =
                IF rollout.dones[idx]
                THEN TerminalRow(rollout.infos[idx]["terminal_observation"])
                ELSE flatten_obs(rollout.new_obs)[idx]

\* C9: collect_rollout stores the raw extrinsic reward env.step returned
\* together with the action sent and the observation held before the step; the
\* composed reward only reaches the logger, and no network parameter changes.
C9_RawRewardStored ==
    [][(pc = "while" /\ num_timesteps' = num_timesteps + NumEnvs) =>
        LET entry == replay_buffer'[Len(replay_buffer')]
            composed == calc_reward(mc_network, flatten_obs(rollout'.new_obs),
                                    rollout'.actions, rollout'.rewards)
        IN  /\ entry.reward = rollout'.rewards
            /\ entry.action = rollout'.actions
            /\ entry.obs = _last_obs
            /\ logger'["mc/reward"] =
                    Mean([i \in Envs |-> Add(rollout'.rewards[i],
                                             composed[i].i_rewards)])
            /\ params' = params]_vars

\* A step whose logged composed reward differs from the stored raw reward.
C9_Witness ==
    /\ RolloutDone
    /\ IsFinite(LastEntry.reward[1])
    /\ logger["mc/reward"] # LastEntry.reward[1]
    /\ LastEntry.reward = rollout.rewards

\* C10: collect_rollout returns False exactly when on_step() returned False;
\* learn's loop is left only on that stop signal or with the step budget used
\* up; after the stop signal no train() call follows and on_training_end is
\* invoked.  The only other way out of learn is the exception predict raises on
\* non-finite actor parameters, which is no exit of the loop.
C10_StopSignal ==
    /\ [](RolloutDone => (continue_training = FALSE <=> rollout.on_step = "False"))
    /\ [][(pc # "on_training_end" /\ pc' = "on_training_end") =>
            (continue_training' = FALSE \/ num_timesteps' >= total_timesteps')]_vars
    /\ [][(pc = "while" /\ continue_training' = FALSE) =>
            pc' = "on_training_end"]_vars
    /\ [][pc = "on_training_end" =>
            (callback' = "on_training_end" /\ pc' = "idle"
             /\ _n_updates' = _n_updates)]_vars
    /\ [][(pc = "while" /\ pc' = "idle") =>
            (~(num_timesteps < learning_starts)
             /\ GetActionRaises(actor, _last_obs))]_vars

\* The loop left on the stop signal with steps of the budget remaining.
C10_Witness ==
    /\ pc = "on_training_end"
    /\ RolloutDone
    /\ rollout.on_step = "False"
    /\ num_timesteps < total_timesteps

\* One iteration's rollout: the step of collect_rollout from learn's loop.
RolloutStep == pc = "while" /\ num_timesteps' = num_timesteps + NumEnvs

\* The rollouts since construction or load that ended with num_timesteps >
\* learning_starts: they ended at NumEnvs, 2 * NumEnvs, ..., num_timesteps.
\* learn resets neither num_timesteps nor _n_updates, so in an engine's first
\* run these are the rollouts of the run.
RolloutsPastWarmUp ==
    Cardinality({k \in 1..(num_timesteps \div NumEnvs) :
                    k * NumEnvs > learning_starts})

\* What every reading of C11 shares: train() begins only right after a
\* rollout and returns to the loop without another step of the environment,
\* no parameter changes inside learn while num_timesteps <= learning_starts,
\* the policy's first action is taken with no update made, and _n_updates
\* grows by one in each train() and nowhere else in learn, so that it never
\* exceeds the number of rollouts ended past learning_starts.
Serialized ==
    /\ [][pc' = "train" => RolloutStep]_vars
    /\ [][(pc = "train" \/ InTrain) =>
            (num_timesteps' = num_timesteps /\ replay_buffer' = replay_buffer
             /\ pc' # "train")]_vars
    /\ [][(pc # "idle" /\ params' # params) =>
            (InTrain /\ num_timesteps > learning_starts)]_vars
    /\ [][(RolloutStep /\ num_timesteps = learning_starts) =>
            (rollout'.source = "predict" /\ _n_updates = 0)]_vars
    /\ [][pc = "train" => _n_updates' = _n_updates + 1]_vars
    /\ [][(pc # "train" /\ pc # "idle") => _n_updates' = _n_updates]_vars
    /\ [](pc = "while" => _n_updates <= RolloutsPastWarmUp)

\* In the first run of an engine, _n_updates at the loop condition is the
\* number of the run's rollouts that ended past learning_starts.
CountAtLoopBoundary ==
    [](pc = "while" /\ learns = 1 => _n_updates = RolloutsPastWarmUp)

\* C11 as stated: every rollout of the loop is followed by train() if and
\* only if the num_timesteps it leaves is greater than learning_starts.
C11_AlternationAsStated ==
    /\ [][RolloutStep =>
            (pc' = "train" <=> num_timesteps' > learning_starts)]_vars
    /\ Serialized
    /\ CountAtLoopBoundary

\* C11: each iteration of learn's loop makes one collect_rollout, raising
\* num_timesteps by num_envs, followed by one train() if and only if the
\* rollout did not return the stop signal and num_timesteps is then greater
\* than learning_starts; no parameter is updated while num_timesteps <=
\* learning_starts, and whenever the loop condition is evaluated in an
\* engine's first run _n_updates is the number of the run's rollouts that
\* ended past learning_starts.
C11_Alternation ==
    /\ [][RolloutStep =>
            (pc' = "train" <=>
                (continue_training' /\ num_timesteps' > learning_starts))]_vars
    /\ Serialized
    /\ CountAtLoopBoundary

\* A run that trained after one rollout and was stopped after the next one,
\* which ended past learning_starts and was followed by no train().
C11_Witness ==
    /\ pc = "on_training_end"
    /\ continue_training = FALSE
    /\ _n_updates > 0
    /\ _n_updates < RolloutsPastWarmUp

=============================================================================
